---- MODULE Spec2Model ----
(***************************************************************************)
(* XAES-256-GCM (src/XAES-256-GCM.go): the extended-nonce AEAD built from   *)
(* a CMAC-style key derivation under AES-256 and AES-256-GCM.               *)
(*                                                                         *)
(* Byte strings are sequences of bytes 0..255.  The two library primitives *)
(* the package calls are modelled by what the package relies on:           *)
(*   - the AES block cipher is a keyed permutation of 16-byte blocks       *)
(*     (Encrypt below), so that K1 and the derived keys are concrete bytes; *)
(*   - GCM is counter-mode encryption under that permutation with an ideal *)
(*     authentication tag: byte i of the tag over (key, nonce, aad,        *)
(*     ciphertext) is the term <<key, nonce, aad, ciphertext, i, mask>>     *)
(*     with mask 0, and flipping bits of a tag byte changes its mask.      *)
(***************************************************************************)
EXTENDS Integers, Sequences, FiniteSets, TLC

VARIABLES x, cons, seal, open, calls

vars == <<x, cons, seal, open, calls>>

-----------------------------------------------------------------------------
(* Program constants *)

KeySize == 32
NonceSize == 24
OverheadWithManualNonces == 16
Overhead == 40
BlockSize == 16
gcmTagSize == 16

errBadKey == "xaes256gcm: bad key length"
errBadNonce == "xaes256gcm: bad nonce length"
errOpen == "xaes256gcm: message authentication failed"
gcmErrOpen == "cipher: message authentication failed"
errOverlap == "crypto/cipher: invalid buffer overlap"
errRand == "crypto/rand: read failed"
NoErr == ""

-----------------------------------------------------------------------------
(* Bounds of the model *)

NumKeys == 2
NumNonces == 2
MaxPlainLen == 2
MaxAadLen == 1
MaxDstLen == 1
NumCallers == 2

-----------------------------------------------------------------------------
(* Byte arithmetic *)

RECURSIVE BitOp(_, _, _, _)
BitOp(op, a, b, n) ==
    IF n = 0 THEN 0
    ELSE LET p == a % 2
             q == b % 2
             r == IF op = "xor" THEN (p + q) % 2
                  ELSE IF p + q > 0 THEN 1 ELSE 0
         IN  r + 2 * BitOp(op, a \div 2, b \div 2, n - 1)

Byte == 0..255

XorTable == [a \in Byte |-> [b \in Byte |-> BitOp("xor", a, b, 8)]]

Xor(a, b) == XorTable[a][b]

Or(a, b) == BitOp("or", a, b, 8)

XORBytes(a, b) == [i \in 1..Len(a) |-> Xor(a[i], b[i])]

Zeros(n) == [i \in 1..n |-> 0]

-----------------------------------------------------------------------------
(* The AES-256 block cipher: a permutation of 16-byte blocks for each key *)

SBox(v) == (v * 167 + 13) % 256

Encrypt(key, src) ==
    [i \in 1..BlockSize |->
        SBox((Xor(src[(i % BlockSize) + 1], key[i]) + key[BlockSize + i] + i) % 256)]

-----------------------------------------------------------------------------
(* Construction *)

Nil == [nil |-> TRUE, auto |-> FALSE, c |-> <<>>, k1 |-> <<>>]

\* ShiftLeft with the carry between bytes lost
RECURSIVE ShiftLeft_noCarry(_, _, _)
ShiftLeft_noCarry(k1, i, msb) ==
    IF i = 0 THEN [k1 |-> k1, msb |-> msb]
    ELSE ShiftLeft_noCarry([k1 EXCEPT ![i] = (k1[i] * 2) % 256],
                           i - 1, k1[i] \div 128)

\* the loop of newWithManualNonces: i runs from len(k1)-1 down to 0
RECURSIVE ShiftLeft(_, _, _)
ShiftLeft(k1, i, msb) ==
    IF i = 0 THEN [k1 |-> k1, msb |-> msb]
    ELSE ShiftLeft([k1 EXCEPT ![i] = Or((k1[i] * 2) % 256, msb)],
                   i - 1, k1[i] \div 128)

\* newWithManualNonces rejecting only the keys that are too short
newWithManualNonces_lt(key) ==
    IF Len(key) < KeySize
    THEN [x |-> Nil, err |-> errBadKey]
    ELSE LET L == Encrypt(key, Zeros(BlockSize))
             s == ShiftLeft(L, BlockSize, 0)
             k1 == [s.k1 EXCEPT ![BlockSize] = Xor(s.k1[BlockSize], s.msb * 135)]
         IN  [x |-> [nil |-> FALSE, auto |-> FALSE, c |-> key, k1 |-> k1],
              err |-> NoErr]

newWithManualNonces(key) ==
    IF Len(key) # KeySize
    THEN [x |-> Nil, err |-> errBadKey]
    ELSE LET L == Encrypt(key, Zeros(BlockSize))
             s == ShiftLeft(L, BlockSize, 0)
             k1 == [s.k1 EXCEPT ![BlockSize] = Xor(s.k1[BlockSize], s.msb * 135)]
         IN  [x |-> [nil |-> FALSE, auto |-> FALSE, c |-> key, k1 |-> k1],
              err |-> NoErr]

-----------------------------------------------------------------------------
(* Key derivation *)

\* deriveKey reading one byte too few of the nonce prefix
deriveKey_shortPrefix(inst, nonce) ==
    LET n11 == SubSeq(nonce, 1, Len(nonce) - 1) \o <<0>>
        k == <<0, 1, 88, 0>> \o n11 \o <<0, 2, 88, 0>> \o n11
        b1 == XORBytes(SubSeq(k, 1, BlockSize), inst.k1)
        b2 == XORBytes(SubSeq(k, BlockSize + 1, 2 * BlockSize), inst.k1)
    IN  Encrypt(inst.c, b1) \o Encrypt(inst.c, b2)

deriveKey(inst, nonce) ==
    LET k == <<0, 1, 88, 0>> \o nonce \o <<0, 2, 88, 0>> \o nonce
        b1 == XORBytes(SubSeq(k, 1, BlockSize), inst.k1)
        b2 == XORBytes(SubSeq(k, BlockSize + 1, 2 * BlockSize), inst.k1)
    IN  Encrypt(inst.c, b1) \o Encrypt(inst.c, b2)

-----------------------------------------------------------------------------
(* AES-256-GCM as the package uses it (cipher.NewGCM(c).Seal / .Open) *)

gcmKeyStream(k, n, i) ==
    Encrypt(k, n \o <<0, 0, 0, 2 + ((i - 1) \div BlockSize)>>)[((i - 1) % BlockSize) + 1]

gcmCTR(k, n, data) == [i \in 1..Len(data) |-> Xor(data[i], gcmKeyStream(k, n, i))]

gcmTag(k, n, aad, ct) == [i \in 1..gcmTagSize |-> <<k, n, aad, ct, i, 0>>]

gcmSealBytes(k, n, plaintext, aad) ==
    LET ct == gcmCTR(k, n, plaintext)
    IN  ct \o gcmTag(k, n, aad, ct)

gcmOpen(k, dst, n, ciphertext, aad) ==
    IF Len(ciphertext) < gcmTagSize
    THEN [out |-> <<>>, err |-> gcmErrOpen]
    ELSE LET body == SubSeq(ciphertext, 1, Len(ciphertext) - gcmTagSize)
             tag == SubSeq(ciphertext, Len(ciphertext) - gcmTagSize + 1, Len(ciphertext))
         IN  IF tag # gcmTag(k, n, aad, body)
             THEN [out |-> <<>>, err |-> gcmErrOpen]
             ELSE [out |-> dst \o gcmCTR(k, n, body), err |-> NoErr]

-----------------------------------------------------------------------------
(* Go slices: a window [off, off+len) of a backing array, with capacity cap. *)
(* mem maps the name of each backing array to its contents.                  *)

Arrays == {"P", "D", "N", "T", "G"}

NoMem == [a \in Arrays |-> <<>>]

NilSlice == [arr |-> "D", off |-> 0, len |-> 0, cap |-> 0]

Bytes(mem, s) == SubSeq(mem[s.arr], s.off + 1, s.off + s.len)

Write(mem, arr, off, data) ==
    [mem EXCEPT ![arr] = [j \in 1..Len(@) |->
        IF j > off /\ j <= off + Len(data) THEN data[j - off] ELSE @[j]]]

\* alias.InexactOverlap of crypto/internal/alias
InexactOverlap(a, b) ==
    /\ a.len > 0
    /\ b.len > 0
    /\ a.arr = b.arr
    /\ a.off # b.off
    /\ a.off < b.off + b.len
    /\ b.off < a.off + a.len

\* sliceForAppend of crypto/cipher: extend in place when the capacity allows
sliceForAppend(mem, in, n) ==
    LET total == in.len + n
    IN  IF in.cap >= total
        THEN [mem |-> mem,
              head |-> [in EXCEPT !.len = total],
              tail |-> [in EXCEPT !.off = in.off + in.len, !.len = n, !.cap = in.cap - in.len]]
        ELSE [mem |-> [mem EXCEPT !["G"] = Bytes(mem, in) \o Zeros(n)],
              head |-> [arr |-> "G", off |-> 0, len |-> total, cap |-> total],
              tail |-> [arr |-> "G", off |-> in.len, len |-> n, cap |-> n]]

gcmSeal(mem, k, dst, n, plaintext, aad) ==
    LET sfa == sliceForAppend(mem, dst, plaintext.len + gcmTagSize)
    IN  IF InexactOverlap([sfa.tail EXCEPT !.len = plaintext.len], plaintext)
        THEN [panic |-> errOverlap, mem |-> mem, ret |-> NilSlice]
        ELSE [panic |-> NoErr,
              mem |-> Write(sfa.mem, sfa.tail.arr, sfa.tail.off,
                            gcmSealBytes(k, n, Bytes(sfa.mem, plaintext), aad)),
              ret |-> sfa.head]

-----------------------------------------------------------------------------
(* Manual-nonce AEAD *)

\* manual Seal trapping only on the nonces that are too short
xaes256gcmManual_Seal_lt(inst, mem, dst, nonce, plaintext, aad) ==
    IF nonce.len < NonceSize
    THEN [panic |-> errBadNonce, k |-> <<>>, mem |-> mem, ret |-> NilSlice]
    ELSE LET nb == Bytes(mem, nonce)
             k == deriveKey(inst, SubSeq(nb, 1, 12))
             n == SubSeq(nb, 13, NonceSize)
             g == gcmSeal(mem, k, dst, n, plaintext, aad)
         IN  [panic |-> g.panic, k |-> k, mem |-> g.mem, ret |-> g.ret]

xaes256gcmManual_Seal(inst, mem, dst, nonce, plaintext, aad) ==
    IF nonce.len # NonceSize
    THEN [panic |-> errBadNonce, k |-> <<>>, mem |-> mem, ret |-> NilSlice]
    ELSE LET nb == Bytes(mem, nonce)
             k == deriveKey(inst, SubSeq(nb, 1, 12))
             n == SubSeq(nb, 13, NonceSize)
             g == gcmSeal(mem, k, dst, n, plaintext, aad)
         IN  [panic |-> g.panic, k |-> k, mem |-> g.mem, ret |-> g.ret]

xaes256gcmManual_Open(inst, dst, nonce, ciphertext, aad) ==
    IF Len(nonce) # NonceSize
    THEN [out |-> <<>>, err |-> errBadNonce, k |-> <<>>]
    ELSE LET k == deriveKey(inst, SubSeq(nonce, 1, 12))
             n == SubSeq(nonce, 13, NonceSize)
             g == gcmOpen(k, dst, n, ciphertext, aad)
         IN  [out |-> g.out, err |-> g.err, k |-> k]

-----------------------------------------------------------------------------
(* Automatic-nonce wrapper.  rnd is what crypto/rand.Read delivers: 24 bytes, *)
(* or the empty string when the random source fails.                          *)

xaes256gcm_Seal(inst, mem, dst, nonce, plaintext, aad, rnd) ==
    IF nonce.len # 0
    THEN [panic |-> errBadNonce, k |-> <<>>, mem |-> mem, ret |-> NilSlice]
    ELSE LET total == dst.len + plaintext.len + Overhead
             grow == dst.cap < total
             mem1 == IF grow
                     THEN [mem EXCEPT !["T"] = Bytes(mem, dst) \o Zeros(total - dst.len)]
                     ELSE mem
             dst1 == IF grow
                     THEN [arr |-> "T", off |-> 0, len |-> dst.len, cap |-> total]
                     ELSE dst
             nonce1 == [arr |-> dst1.arr, off |-> dst1.off + dst1.len,
                        len |-> NonceSize, cap |-> dst1.cap - dst1.len]
         IN  IF Len(rnd) # NonceSize
             THEN [panic |-> errRand, k |-> <<>>, mem |-> mem1, ret |-> NilSlice]
             ELSE xaes256gcmManual_Seal(inst,
                                        Write(mem1, nonce1.arr, nonce1.off, rnd),
                                        [dst1 EXCEPT !.len = dst1.len + NonceSize],
                                        nonce1, plaintext, aad)

\* automatic Open reporting a non-empty nonce as an authentication failure
xaes256gcm_Open_generic(inst, dst, nonce, ciphertext, aad) ==
    IF Len(nonce) # 0 \/ Len(ciphertext) < NonceSize
    THEN [out |-> <<>>, err |-> errOpen, k |-> <<>>]
    ELSE xaes256gcmManual_Open(inst, dst,
                               SubSeq(ciphertext, 1, NonceSize),
                               SubSeq(ciphertext, NonceSize + 1, Len(ciphertext)),
                               aad)

xaes256gcm_Open(inst, dst, nonce, ciphertext, aad) ==
    IF Len(nonce) # 0
    THEN [out |-> <<>>, err |-> errBadNonce, k |-> <<>>]
    ELSE IF Len(ciphertext) < NonceSize
    THEN [out |-> <<>>, err |-> errOpen, k |-> <<>>]
    ELSE xaes256gcmManual_Open(inst, dst,
                               SubSeq(ciphertext, 1, NonceSize),
                               SubSeq(ciphertext, NonceSize + 1, Len(ciphertext)),
                               aad)

-----------------------------------------------------------------------------
(* Inputs *)

Key(i) == [j \in 1..KeySize |-> (i * 57 + j * j * 29 + j * 11) % 256]

Keys == {Key(i) : i \in 1..NumKeys}

BadKeyLens == {0, 16, 31, 33}

BadKeys == {[j \in 1..n |-> (j * 11) % 256] : n \in BadKeyLens}

Nonce(i) == [j \in 1..NonceSize |-> (i * 53 + j * 7) % 256]

Nonces == {Nonce(i) : i \in 1..NumNonces}

BadNonceLens == {0, 12, 23, 25, 32}

\* a nonce of any length: Nonce(1), cut or extended
NonceOfLen(n) == [j \in 1..n |-> (53 + j * 7) % 256]

BadNonces == {NonceOfLen(n) : n \in BadNonceLens}

PtOfLen(n) == [j \in 1..n |-> (64 + j) % 256]

\* one plaintext longer than a nonce, for the buffer-overlap check of GCM
LongPlainLen == NonceSize + 1

Plaintexts == {PtOfLen(n) : n \in (0..MaxPlainLen) \cup {LongPlainLen}}

Aads == {[j \in 1..n |-> (160 + j) % 256] : n \in 0..MaxAadLen}

DstOfLen(n) == [j \in 1..n |-> (8 + j) % 256]

Dsts == {DstOfLen(n) : n \in 0..MaxDstLen}

\* how the caller lays out its buffers: dst and plaintext in separate arrays,
\* or dst = plaintext[:0] with spare capacity behind the plaintext
SealCfgs == {[alias |-> FALSE, spare |-> 0]}
            \cup {[alias |-> TRUE, spare |-> s] : s \in {0, Overhead}}

SealMem(cfg, dst, nonce, pt) ==
    [NoMem EXCEPT !["P"] = pt \o Zeros(cfg.spare), !["D"] = dst, !["N"] = nonce]

DstSlice(cfg, dst, pt) ==
    IF cfg.alias
    THEN [arr |-> "P", off |-> 0, len |-> 0, cap |-> Len(pt) + cfg.spare]
    ELSE [arr |-> "D", off |-> 0, len |-> Len(dst), cap |-> Len(dst)]

PtSlice(cfg, pt) == [arr |-> "P", off |-> 0, len |-> Len(pt), cap |-> Len(pt) + cfg.spare]

NonceSlice(nonce) == [arr |-> "N", off |-> 0, len |-> Len(nonce), cap |-> Len(nonce)]

-----------------------------------------------------------------------------
(* State: the instance x, and the records of the last construction, the last *)
(* Seal call and the Open call made on its output.                           *)

NoCons == [valid |-> FALSE, auto |-> FALSE, key |-> <<>>, err |-> NoErr]

NoSeal == [valid |-> FALSE, auto |-> FALSE, cfg |-> [alias |-> FALSE, spare |-> 0],
           dst |-> <<>>, nonce |-> <<>>, rnd |-> <<>>, pt |-> <<>>, aad |-> <<>>,
           panic |-> NoErr, k |-> <<>>, out |-> <<>>]

NoOpen == [valid |-> FALSE, kind |-> "none", i |-> 0, dst |-> <<>>, nonce |-> <<>>,
           ct |-> <<>>, aad |-> <<>>, out |-> <<>>, err |-> NoErr, k |-> <<>>]

Callers == 1..NumCallers

NoCall == [pc |-> "idle", op |-> "none", argNonce |-> <<>>, argIn |-> <<>>,
           nonce |-> <<>>, in |-> <<>>, aad |-> <<>>,
           k |-> <<>>, out |-> <<>>, err |-> NoErr]

Init ==
    /\ x = Nil
    /\ cons = NoCons
    /\ seal = NoSeal
    /\ open = NoOpen
    /\ calls = [p \in Callers |-> NoCall]

Construct(key, auto) ==
    LET r == newWithManualNonces(key)
    IN  /\ x.nil
        /\ x' = IF r.err = NoErr THEN [r.x EXCEPT !.auto = auto] ELSE Nil
        /\ cons' = [valid |-> TRUE, auto |-> auto, key |-> key, err |-> r.err]
        /\ UNCHANGED <<seal, open, calls>>

New == \E key \in Keys \cup BadKeys : Construct(key, TRUE)

NewWithManualNonces == \E key \in Keys \cup BadKeys : Construct(key, FALSE)

\* Seal and Open leave the instance alone, so a behaviour of Spec is one
\* construction, one Seal and one Open of what it produced; sequences and
\* interleavings of calls are the subject of SpecConc below.

\* the record of a finished Seal call
SealResult(cfg, dst, nonce, rnd, pt, aad, r) ==
    [valid |-> TRUE, auto |-> x.auto, cfg |-> cfg, dst |-> dst, nonce |-> nonce,
     rnd |-> rnd, pt |-> pt, aad |-> aad, panic |-> r.panic, k |-> r.k,
     out |-> IF r.panic = NoErr THEN Bytes(r.mem, r.ret) ELSE <<>>]

ManualSeal ==
    /\ ~x.nil /\ ~x.auto /\ ~seal.valid
    /\ \E cfg \in SealCfgs, dst \in Dsts, nonce \in Nonces \cup BadNonces,
          pt \in Plaintexts, aad \in Aads :
        /\ cfg.alias => dst = <<>>
        /\ Len(pt) > MaxPlainLen => cfg.alias
        /\ seal' = SealResult(cfg, dst, nonce, <<>>, pt, aad,
                       xaes256gcmManual_Seal(x, SealMem(cfg, dst, nonce, pt),
                                             DstSlice(cfg, dst, pt), NonceSlice(nonce),
                                             PtSlice(cfg, pt), aad))
    /\ UNCHANGED <<x, cons, open, calls>>

AutoSeal ==
    /\ ~x.nil /\ x.auto /\ ~seal.valid
    /\ \E cfg \in SealCfgs, dst \in Dsts, nonce \in {<<>>, Nonce(1)},
          rnd \in Nonces \cup {<<>>}, pt \in Plaintexts, aad \in Aads :
        /\ cfg.alias => dst = <<>>
        /\ Len(pt) > MaxPlainLen => cfg.alias
        /\ seal' = SealResult(cfg, dst, nonce, rnd, pt, aad,
                       xaes256gcm_Seal(x, SealMem(cfg, dst, nonce, pt),
                                       DstSlice(cfg, dst, pt), NonceSlice(nonce),
                                       PtSlice(cfg, pt), aad, rnd))
    /\ UNCHANGED <<x, cons, open, calls>>

-----------------------------------------------------------------------------
(* What Open is called with: the output of the last Seal, as it is or changed *)

\* what Seal appended to dst
Sealed == SubSeq(seal.out, Len(seal.dst) + 1, Len(seal.out))

FlipByte(b, bit) == Xor(b, 2 ^ bit)

\* flip bit i (counted from 0) of a string of bytes
FlipBit(str, i) == [str EXCEPT ![(i \div 8) + 1] = FlipByte(@, i % 8)]

\* flip bit i of a sealed message, whose last 16 bytes are the tag
FlipSealedBit(msg, i) ==
    IF (i \div 8) + 1 > Len(msg) - gcmTagSize
    THEN [msg EXCEPT ![(i \div 8) + 1] = [@ EXCEPT ![6] = FlipByte(@, i % 8)]]
    ELSE FlipBit(msg, i)

\* single-bit changes are applied to the messages sealed into a fresh, empty dst
Tamperable == ~seal.cfg.alias /\ seal.dst = <<>>

BitsOf(str) == IF Tamperable THEN 0..(8 * Len(str) - 1) ELSE {}

ManualOpenKinds ==
    {[kind |-> "same", i |-> 0]}
    \cup {[kind |-> "nonce", i |-> i] : i \in BitsOf(seal.nonce)}
    \cup {[kind |-> "ct", i |-> i] : i \in BitsOf(Sealed)}
    \cup {[kind |-> "aad", i |-> i] : i \in BitsOf(seal.aad)}
    \cup {[kind |-> "nlen", i |-> n] : n \in BadNonceLens}

AutoOpenKinds ==
    {[kind |-> "same", i |-> 0]}
    \cup {[kind |-> "ct", i |-> i] : i \in BitsOf(Sealed)}
    \cup {[kind |-> "aad", i |-> i] : i \in BitsOf(seal.aad)}
    \cup {[kind |-> "trunc", i |-> n] : n \in 0..(NonceSize + gcmTagSize - 1)}
    \cup {[kind |-> "nlen", i |-> n] : n \in {12, NonceSize}}

OpenNonce(c) ==
    IF c.kind = "nonce" THEN FlipBit(seal.nonce, c.i)
    ELSE IF c.kind = "nlen" THEN NonceOfLen(c.i)
    ELSE seal.nonce

OpenCiphertext(c) ==
    IF c.kind = "ct" THEN FlipSealedBit(Sealed, c.i)
    ELSE IF c.kind = "trunc" THEN SubSeq(Sealed, 1, c.i)
    ELSE Sealed

OpenAad(c) == IF c.kind = "aad" THEN FlipBit(seal.aad, c.i) ELSE seal.aad

OpenDsts(c) == IF c.kind = "same" THEN Dsts ELSE {DstOfLen(MaxDstLen)}

OpenResult(c, dst, r) ==
    [valid |-> TRUE, kind |-> c.kind, i |-> c.i, dst |-> dst, nonce |-> OpenNonce(c),
     ct |-> OpenCiphertext(c), aad |-> OpenAad(c), out |-> r.out, err |-> r.err,
     k |-> r.k]

ManualOpen ==
    /\ ~x.nil /\ ~x.auto /\ ~open.valid
    /\ seal.valid /\ seal.panic = NoErr
    /\ \E c \in ManualOpenKinds : \E dst \in OpenDsts(c) :
        open' = OpenResult(c, dst,
                    xaes256gcmManual_Open(x, dst, OpenNonce(c), OpenCiphertext(c), OpenAad(c)))
    /\ UNCHANGED <<x, cons, seal, calls>>

AutoOpen ==
    /\ ~x.nil /\ x.auto /\ ~open.valid
    /\ seal.valid /\ seal.panic = NoErr
    /\ \E c \in AutoOpenKinds : \E dst \in OpenDsts(c) :
        open' = OpenResult(c, dst,
                    xaes256gcm_Open(x, dst, OpenNonce(c), OpenCiphertext(c), OpenAad(c)))
    /\ UNCHANGED <<x, cons, seal, calls>>

Next ==
    \/ New
    \/ NewWithManualNonces
    \/ ManualSeal
    \/ AutoSeal
    \/ ManualOpen
    \/ AutoOpen

Spec == Init /\ [][Next]_vars

-----------------------------------------------------------------------------
(* Concurrent callers of one instance.  Each caller runs one Seal or Open at *)
(* a time, statement by statement: the wrapper's body, the manual method's   *)
(* nonce check, deriveKey, and the GCM call.                                 *)

\* the message the instance produces for Nonce(1), used as input of Open
SealedBytes(inst, nonce, pt, aad) ==
    LET k == deriveKey(inst, SubSeq(nonce, 1, 12))
    IN  gcmSealBytes(k, SubSeq(nonce, 13, NonceSize), pt, aad)

ConcPlain == PtOfLen(MaxPlainLen)

ConcAad == [j \in 1..MaxAadLen |-> (160 + j) % 256]

ConcNonces == IF x.auto THEN {<<>>, NonceOfLen(12)} ELSE {Nonce(1), NonceOfLen(12)}

ConcInputs(op) ==
    IF op = "Seal" THEN {ConcPlain}
    ELSE LET m == SealedBytes(x, Nonce(1), ConcPlain, ConcAad)
             msg == IF x.auto THEN Nonce(1) \o m ELSE m
         IN  {msg, FlipSealedBit(msg, 0)}

Call(p) ==
    /\ ~x.nil
    /\ calls[p].pc = "idle"
    /\ \E op \in {"Seal", "Open"} : \E nonce \in ConcNonces, in \in ConcInputs(op) :
        calls' = [calls EXCEPT ![p] =
                    [pc |-> IF x.auto THEN "auto" ELSE "manual", op |-> op,
                     argNonce |-> nonce, argIn |-> in, nonce |-> nonce, in |-> in, aad |-> ConcAad, k |-> <<>>,
                     out |-> <<>>, err |-> NoErr]]
    /\ UNCHANGED <<x, cons, seal, open>>

\* xaes256gcm.Seal / xaes256gcm.Open up to the call of the manual method
AutoStep(p) ==
    LET c == calls[p]
    IN  /\ c.pc = "auto"
        /\ IF Len(c.nonce) # 0
           THEN calls' = [calls EXCEPT ![p].pc = IF c.op = "Seal" THEN "panic" ELSE "done",
                                       ![p].err = errBadNonce]
           ELSE IF c.op = "Seal"
           THEN \E rnd \in Nonces :
                    calls' = [calls EXCEPT ![p].pc = "manual", ![p].nonce = rnd,
                                           ![p].out = rnd]
           ELSE IF Len(c.in) < NonceSize
           THEN calls' = [calls EXCEPT ![p].pc = "done", ![p].err = errOpen]
           ELSE calls' = [calls EXCEPT ![p].pc = "manual",
                                       ![p].nonce = SubSeq(c.in, 1, NonceSize),
                                       ![p].in = SubSeq(c.in, NonceSize + 1, Len(c.in))]
        /\ UNCHANGED <<x, cons, seal, open>>

\* the nonce-length check of xaes256gcmManual.Seal / xaes256gcmManual.Open
ManualCheck(p) ==
    LET c == calls[p]
    IN  /\ c.pc = "manual"
        /\ IF Len(c.nonce) # NonceSize
           THEN calls' = [calls EXCEPT ![p].pc = IF c.op = "Seal" THEN "panic" ELSE "done",
                                       ![p].out = <<>>, ![p].err = errBadNonce]
           ELSE calls' = [calls EXCEPT ![p].pc = "derive"]
        /\ UNCHANGED <<x, cons, seal, open>>

\* deriveKey XORing the first block into x.k1 instead of into its own buffer
DeriveKeyStep_inPlace(p) ==
    /\ calls[p].pc = "derive"
    /\ calls' = [calls EXCEPT ![p].pc = "gcm",
                              ![p].k = deriveKey(x, SubSeq(calls[p].nonce, 1, 12))]
    /\ x' = [x EXCEPT !.k1 = XORBytes(<<0, 1, 88, 0>> \o SubSeq(calls[p].nonce, 1, 12), x.k1)]
    /\ UNCHANGED <<cons, seal, open>>

DeriveKeyStep(p) ==
    /\ calls[p].pc = "derive"
    /\ calls' = [calls EXCEPT ![p].pc = "gcm",
                              ![p].k = deriveKey(x, SubSeq(calls[p].nonce, 1, 12))]
    /\ UNCHANGED <<x, cons, seal, open>>

GcmStep(p) ==
    LET c == calls[p]
        n == SubSeq(c.nonce, 13, NonceSize)
    IN  /\ c.pc = "gcm"
        /\ IF c.op = "Seal"
           THEN calls' = [calls EXCEPT ![p].pc = "done",
                                       ![p].out = c.out \o gcmSealBytes(c.k, n, c.in, c.aad)]
           ELSE LET r == gcmOpen(c.k, <<>>, n, c.in, c.aad)
                IN  calls' = [calls EXCEPT ![p].pc = "done", ![p].out = r.out,
                                           ![p].err = r.err]
        /\ UNCHANGED <<x, cons, seal, open>>

Return(p) ==
    /\ calls[p].pc \in {"done", "panic"}
    /\ calls' = [calls EXCEPT ![p] = NoCall]
    /\ UNCHANGED <<x, cons, seal, open>>

NextConc ==
    \/ New
    \/ NewWithManualNonces
    \/ \E p \in Callers : Call(p)
    \/ \E p \in Callers : AutoStep(p)
    \/ \E p \in Callers : ManualCheck(p)
    \/ \E p \in Callers : DeriveKeyStep(p)
    \/ \E p \in Callers : GcmStep(p)
    \/ \E p \in Callers : Return(p)

SpecConc == Init /\ [][NextConc]_vars

-----------------------------------------------------------------------------
(* Reference formulation of the key derivation (C2SP XAES-256-GCM): K1 is   *)
(* the doubling of L in GF(2^128), on the 128 bits of L, first bit highest. *)

BlockBits(blk) ==
    [i \in 1..(8 * BlockSize) |->
        (blk[((i - 1) \div 8) + 1] \div (2 ^ (7 - ((i - 1) % 8)))) % 2]

BitsToBlock(bits) ==
    [j \in 1..BlockSize |->
        LET b(t) == bits[8 * (j - 1) + t]
        IN  128 * b(1) + 64 * b(2) + 32 * b(3) + 16 * b(4)
            + 8 * b(5) + 4 * b(6) + 2 * b(7) + b(8)]

\* x^7 + x^2 + x + 1, the low part of the reduction polynomial (0x87)
PolyBits == [i \in 1..(8 * BlockSize) |-> IF i \in {121, 126, 127, 128} THEN 1 ELSE 0]

RefDouble(L) ==
    LET b == BlockBits(L)
        sh == [i \in 1..(8 * BlockSize) |-> IF i < 8 * BlockSize THEN b[i + 1] ELSE 0]
    IN  BitsToBlock([i \in 1..(8 * BlockSize) |->
                        IF b[1] = 1 THEN (sh[i] + PolyBits[i]) % 2 ELSE sh[i]])

\* the reference K1 of each key of the model
RefK1Table == [K \in Keys |-> RefDouble(Encrypt(K, Zeros(BlockSize)))]

RefK1(K) == RefK1Table[K]

RefDeriveKey(K, N1) ==
    Encrypt(K, XORBytes(RefK1(K), <<0, 1, 88, 0>> \o N1))
    \o Encrypt(K, XORBytes(RefK1(K), <<0, 2, 88, 0>> \o N1))

-----------------------------------------------------------------------------
(* Properties *)

\* the nonce the last Seal encrypted under
SealNonce == IF seal.auto THEN seal.rnd ELSE seal.nonce

\* C1: opening what the instance sealed, with the same nonce and associated
\* data, returns exactly the plaintext and no error, in manual and in
\* automatic mode.
C1_RoundTrip ==
    (open.valid /\ open.kind = "same")
        => (open.err = NoErr /\ open.out = open.dst \o seal.pt)

\* C2: from a message sealed in manual mode, Open of the message with any
\* single bit of the ciphertext body, the tag, the associated data or the
\* nonce flipped fails, and a failing Open returns no plaintext bytes.
C2_TamperDetected ==
    (open.valid /\ ~seal.auto)
        => /\ open.kind \in {"nonce", "ct", "aad"} => open.err = gcmErrOpen
           /\ open.err # NoErr => open.out = <<>>

C2_Witness ==
    /\ open.valid /\ ~seal.auto
    /\ open.kind = "nonce" /\ open.i < 96
    /\ Len(seal.pt) > 0 /\ Len(seal.aad) > 0
    /\ open.err = gcmErrOpen /\ open.out = <<>>

\* C3: automatic Seal returns dst's bytes, then the 24 nonce bytes, then
\* exactly what manual Seal produces for that nonce, plaintext and associated
\* data; manual Seal appends len(plaintext)+16 bytes and automatic Seal
\* len(plaintext)+40 bytes.
C3_OutputLayout ==
    seal.valid /\ Len(seal.nonce) = (IF seal.auto THEN 0 ELSE NonceSize)
               /\ (seal.auto => Len(seal.rnd) = NonceSize)
        => /\ seal.panic = NoErr
           /\ seal.out = seal.dst \o (IF seal.auto THEN seal.rnd ELSE <<>>)
                         \o SealedBytes(x, SealNonce, seal.pt, seal.aad)
           /\ Len(seal.out) = Len(seal.dst) + Len(seal.pt)
                              + (IF seal.auto THEN Overhead ELSE OverheadWithManualNonces)

\* C6: in manual mode a nonce whose length is not 24 makes Seal trap before
\* any key is derived or output produced, and makes Open return the
\* bad-nonce-length error with no plaintext; a 24-byte nonce causes neither.
C6_NonceLengthAsymmetry ==
    /\ (seal.valid /\ ~seal.auto)
        => IF Len(seal.nonce) # NonceSize
           THEN seal.panic = errBadNonce /\ seal.k = <<>> /\ seal.out = <<>>
           ELSE seal.panic = NoErr
    /\ (open.valid /\ ~seal.auto)
        => IF Len(open.nonce) # NonceSize
           THEN open.err = errBadNonce /\ open.k = <<>> /\ open.out = <<>>
           ELSE open.err # errBadNonce

C6_Witness ==
    /\ seal.valid /\ ~seal.auto
    /\ Len(seal.nonce) = NonceSize + 1
    /\ seal.panic = errBadNonce

\* C7: both constructors fail with the bad-key-length error and return no
\* instance for every key that is not 32 bytes long, and succeed with an
\* instance holding the key for every 32-byte key.
C7_ConstructionChecksKeyLength ==
    cons.valid
        => IF Len(cons.key) # KeySize
           THEN cons.err = errBadKey /\ x.nil
           ELSE /\ cons.err = NoErr
                /\ ~x.nil
                /\ x.auto = cons.auto
                /\ x.c = cons.key
                /\ Len(x.k1) = BlockSize

C7_Witness ==
    /\ cons.valid /\ cons.auto
    /\ Len(cons.key) = KeySize + 1
    /\ cons.err = errBadKey /\ x.nil

\* C9: K1 is the GF(2^128) doubling of L = AES_K(0^16), every derived key is
\* AES_K(K1 xor (00 01 'X' 00 || N1)) || AES_K(K1 xor (00 02 'X' 00 || N1)),
\* and Seal and Open with the same key and nonce derive the same key.
C9_KeyDerivationMatchesReference ==
    /\ ~x.nil => x.k1 = RefK1(cons.key)
    /\ (seal.valid /\ seal.k # <<>>)
        => seal.k = RefDeriveKey(cons.key, SubSeq(SealNonce, 1, 12))
    /\ (open.valid /\ open.k # <<>>)
        => open.k = RefDeriveKey(cons.key,
                        SubSeq(IF seal.auto THEN open.ct ELSE open.nonce, 1, 12))
    /\ (open.valid /\ open.kind = "same") => open.k = seal.k /\ open.k # <<>>

C9_Witness ==
    /\ open.valid /\ open.kind = "same"
    /\ cons.key = Key(2)
    /\ Encrypt(cons.key, Zeros(BlockSize))[1] >= 128
    /\ Len(open.k) = KeySize

\* C10: automatic Seal encrypts the plaintext as it was when Seal was called
\* for every dst, also one that shares the plaintext's backing array: the
\* call does not trap and its message opens to the original plaintext.
C10_AutoSealKeepsPlaintext ==
    (seal.valid /\ seal.auto /\ Len(seal.nonce) = 0 /\ Len(seal.rnd) = NonceSize)
        => /\ seal.panic = NoErr
           /\ xaes256gcm_Open(x, <<>>, <<>>, Sealed, seal.aad).err = NoErr
           /\ xaes256gcm_Open(x, <<>>, <<>>, Sealed, seal.aad).out = seal.pt

\* C4 as stated: automatic Open called with a non-empty nonce fails with the
\* generic authentication-failed error and not with a nonce-length error.
AuthenticationFailed == {errOpen, gcmErrOpen}

C5_ShortInputIndistinguishable ==
    (open.valid /\ seal.auto /\ open.kind = "trunc" /\ open.i < NonceSize)
        => /\ open.out = <<>>
           /\ open.err \in AuthenticationFailed
           /\ open.err = xaes256gcm_Open(x, open.dst, <<>>,
                             FlipSealedBit(Sealed, 8 * Len(Sealed) - 1), seal.aad).err
           /\ open.err = xaes256gcm_Open(x, open.dst, <<>>,
                             SubSeq(Sealed, 1, NonceSize), seal.aad).err

-----------------------------------------------------------------------------
(* Properties of the concurrent callers (SpecConc) *)

FreshCfg == [alias |-> FALSE, spare |-> 0]

\* what the whole call returns for the caller's arguments, from the instance alone
ExpectedSeal(c) ==
    IF x.auto
    THEN xaes256gcm_Seal(x, SealMem(FreshCfg, <<>>, c.argNonce, c.argIn),
                         DstSlice(FreshCfg, <<>>, c.argIn), NonceSlice(c.argNonce),
                         PtSlice(FreshCfg, c.argIn), c.aad, c.nonce)
    ELSE xaes256gcmManual_Seal(x, SealMem(FreshCfg, <<>>, c.argNonce, c.argIn),
                               DstSlice(FreshCfg, <<>>, c.argIn), NonceSlice(c.argNonce),
                               PtSlice(FreshCfg, c.argIn), c.aad)

ExpectedOpen(c) ==
    IF x.auto
    THEN xaes256gcm_Open(x, <<>>, c.argNonce, c.argIn, c.aad)
    ELSE xaes256gcmManual_Open(x, <<>>, c.argNonce, c.argIn, c.aad)

ResultFromArguments(p) ==
    LET c == calls[p]
    IN  /\ (c.pc = "panic")
            => c.op = "Seal" /\ ExpectedSeal(c).panic = c.err
        /\ (c.pc = "done" /\ c.op = "Seal")
            => LET r == ExpectedSeal(c)
               IN  r.panic = NoErr /\ c.out = Bytes(r.mem, r.ret) /\ c.k = r.k
        /\ (c.pc = "done" /\ c.op = "Open")
            => LET r == ExpectedOpen(c)
               IN  c.out = r.out /\ c.err = r.err /\ c.k = r.k

\* C8: once construction has returned, no step of any Seal or Open call of
\* any caller changes the instance (its cipher key and K1), and every call
\* returns what its own arguments (and its generated nonce) determine,
\* whatever the other callers are doing.
C8_InstanceImmutable ==
    /\ [][~x.nil => x' = x]_vars
    /\ [](\A p \in Callers : ResultFromArguments(p))

C8_Witness ==
    /\ ~x.nil
    /\ calls[1].pc = "done" /\ calls[1].op = "Seal" /\ calls[1].err = NoErr
    /\ calls[2].pc = "gcm" /\ calls[2].op = "Open"
    /\ x.k1 = RefK1(x.c)

====
